---- MODULE Spec2Model ----
(***************************************************************************)
(* DeoLang: a two-dimensional, stack-based language.  The module models    *)
(* the interpreter of deolang/interpreter.py (its state, process_char,     *)
(* reset and the batch loop run) over the program grid of                  *)
(* deolang/gridmap.py.                                                     *)
(*                                                                         *)
(* Characters of the program are one-character strings; the blank cell is  *)
(* the empty string, as GridMap stores it.  Text the program emits is kept *)
(* as sequences of code points, so that str() and chr() are computed.      *)
(***************************************************************************)
EXTENDS Integers, Sequences, FiniteSets, TLC

VARIABLES
    program,         \* self.program: None, or the grid (a sequence of rows)
    stack,           \* self.stack
    addition_stack,  \* self.addition_stack
    output,          \* self.output: the fragments appended by N and A
    x,               \* self.x (column)
    y,               \* self.y (row)
    direction,       \* self.direction: <<dx, dy>>
    ignore_mode,     \* self.ignore_mode
    calls,           \* number of calls the driver has made so far
    last,            \* the last call: its kind, argument, result and the state before it
    run_pc,          \* where the call of run stands: idle, loop, returned, raised
    run_steps,       \* run's argument steps
    run_i,           \* iterations of run's for loop already started
    run_result,      \* what run returned or raised
    run_hist,        \* what happened during the current call of run
    script,          \* the characters a scripted driver hands to process_char
    built_in_input,  \* self.built_in_input: input is asked for, not given
    input,           \* self.input: the code points of program_input (unset: None)
    input_pointer,   \* self.input_pointer (unset: 0)
    grid_call,       \* the last call of GridMap: its arguments and its result
    dbg              \* the debugger's window: its grid of cells, its timer and counters

vars == <<program, stack, addition_stack, output, x, y, direction, ignore_mode,
          calls, last, run_pc, run_steps, run_i, run_result, run_hist, script,
          built_in_input, input, input_pointer, grid_call, dbg>>

(***************************************************************************)
(* Bounds of the model.                                                    *)
(***************************************************************************)
\* calls of process_char and reset a driver makes in one session
MaxCalls == 4
\* calls of load_program, run and reset a batch driver makes in one session
MaxRunCalls == 3
\* largest step budget handed to run
MaxBudget == 6

\* cells crossed inside a bridge, and turns made in a row, by a scripted driver
MaxSkipped == 2

MaxTurns == 4

\* I cells met in a row by a scripted driver
MaxInputs == 3

\* characters of a program file
MaxText == 4
MaxAutoSteps == 2
MaxDbgCalls == 4
MaxDialogs == 2

(***************************************************************************)
(* Constants of the program.                                               *)
(***************************************************************************)
None == <<>>

\* what GridMap.get_item returns outside the grid
FalseItem == "False"

DirectionChars == {"^", ">", "<", "V"}

\* a table for a grid whose y grows upwards
DirectionsUpIsPositive(c) ==
    CASE c = "^" -> <<0, 1>>
      [] c = ">" -> <<1, 0>>
      [] c = "<" -> <<-1, 0>>
      [] c = "V" -> <<0, -1>>

DIRECTIONS(c) ==
    CASE c = "^" -> <<0, -1>>
      [] c = ">" -> <<1, 0>>
      [] c = "<" -> <<-1, 0>>
      [] c = "V" -> <<0, 1>>

UnitVectors == {<<0, -1>>, <<1, 0>>, <<-1, 0>>, <<0, 1>>}

\* the two tables exchanged
TurnRightAsLeft(d) ==
    CASE d = <<0, -1>> -> <<-1, 0>>
      [] d = <<1, 0>> -> <<0, -1>>
      [] d = <<-1, 0>> -> <<0, 1>>
      [] d = <<0, 1>> -> <<1, 0>>

\* a table with one entry mistyped
TurnRightTypo(d) ==
    CASE d = <<0, -1>> -> <<1, 0>>
      [] d = <<1, 0>> -> <<0, 1>>
      [] d = <<0, 1>> -> <<0, 0>>
      [] d = <<-1, 0>> -> <<0, -1>>

TURN_RIGHT(d) ==
    CASE d = <<0, -1>> -> <<1, 0>>
      [] d = <<1, 0>> -> <<0, 1>>
      [] d = <<-1, 0>> -> <<0, -1>>
      [] d = <<0, 1>> -> <<-1, 0>>

\* a table with one entry copied from TURN_RIGHT
TurnLeftWrongEntry(d) ==
    CASE d = <<0, -1>> -> <<-1, 0>>
      [] d = <<1, 0>> -> <<0, -1>>
      [] d = <<-1, 0>> -> <<0, -1>>
      [] d = <<0, 1>> -> <<1, 0>>

TURN_LEFT(d) ==
    CASE d = <<0, -1>> -> <<-1, 0>>
      [] d = <<1, 0>> -> <<0, -1>>
      [] d = <<-1, 0>> -> <<0, 1>>
      [] d = <<0, 1>> -> <<1, 0>>

\* the largest code point chr accepts
MaxCodePoint == 1114111

(***************************************************************************)
(* Python's built-ins, as process_char uses them.                          *)
(***************************************************************************)
DigitChars == <<"0", "1", "2", "3", "4", "5", "6", "7", "8", "9">>

\* two characters outside ASCII, written by their code points: ARABIC-INDIC
\* DIGIT THREE and SUPERSCRIPT TWO
ArabicThree == "U+0663"

SuperscriptTwo == "U+00B2"

\* char.isdigit(): true of every character whose Unicode property Numeric_Type
\* is Digit or Decimal, not only of 0..9
IsDigit(c) == (\E i \in 1..10 : DigitChars[i] = c) \/ c \in {ArabicThree, SuperscriptTwo}

\* int(char) accepts decimal digits of any script and raises ValueError for
\* the other characters isdigit() admits
IntDefined(c) == (\E i \in 1..10 : DigitChars[i] = c) \/ c = ArabicThree

\* int(char)
IntOf(c) == IF c = ArabicThree THEN 3 ELSE (CHOOSE i \in 1..10 : DigitChars[i] = c) - 1

\* a quotient rounded toward zero, as C's / does
TruncDiv(a, b) ==
    LET na == IF a < 0 THEN -a ELSE a
        nb == IF b < 0 THEN -b ELSE b
        q  == na \div nb
    IN  IF (a < 0) = (b < 0) THEN q ELSE -q

\* a // b for b # 0: the floor of the quotient
FloorDiv(a, b) ==
    LET na == IF a < 0 THEN -a ELSE a
        nb == IF b < 0 THEN -b ELSE b
        q  == na \div nb
        r  == na % nb
    IN  IF (a < 0) = (b < 0) THEN q
        ELSE IF r = 0 THEN -q ELSE -(q + 1)

RECURSIVE NatDigits(_)
\* the decimal digits of n >= 0 as code points, most significant first
NatDigits(n) ==
    IF n < 10 THEN <<48 + n>>
    ELSE Append(NatDigits(n \div 10), 48 + (n % 10))

\* str(v) for an integer v
Str(v) == IF v < 0 THEN <<45>> \o NatDigits(-v) ELSE NatDigits(v)

\* chr(v) is defined for 0 <= v <= 0x10FFFF and raises ValueError otherwise
ChrDefined(v) == 0 <= v /\ v <= MaxCodePoint

Chr(v) == <<v>>

RECURSIVE Join(_)
\* "".join(fragments)
Join(fragments) ==
    IF fragments = <<>> THEN <<>>
    ELSE Head(fragments) \o Join(Tail(fragments))

(***************************************************************************)
(* The interpreter's state as one value, and process_char as a function    *)
(* from a state and a character to the new state and the result.           *)
(***************************************************************************)
State ==
    [stack |-> stack, addition_stack |-> addition_stack, output |-> output,
     x |-> x, y |-> y, direction |-> direction, ignore_mode |-> ignore_mode]

\* a pointer that starts out moving east
InitDirectionEast == <<1, 0>>

\* Interpreter.__init__: the direction after construction
InitDirection == <<0, 0>>

InitState ==
    [stack |-> <<>>, addition_stack |-> <<>>, output |-> <<>>,
     x |-> 0, y |-> 0, direction |-> InitDirection, ignore_mode |-> FALSE]

Ret(s, r) == [state |-> s, result |-> r]

\* a movement applied twice
MoveTwice(s) == [s EXCEPT !.x = s.x + 2 * s.direction[1], !.y = s.y + 2 * s.direction[2]]

\* self.x += self.direction[0]; self.y += self.direction[1]
Move(s) == [s EXCEPT !.x = s.x + s.direction[1], !.y = s.y + s.direction[2]]

Top(q) == q[Len(q)]

Pop(q) == SubSeq(q, 1, Len(q) - 1)

\* an except clause that falls through to the movement
UnderflowAdvances(s) == Ret(Move(s), "IndexError")

\* the except clause: the IndexError is returned, the pointer is not moved
Underflow(s) == Ret(s, "IndexError")

\* a blank cell that is skipped like an unknown character before returning
BlankStepAdvances(s) == Ret(Move(s), "False")

\* the blank-cell test at the head of process_char
BlankStep(s) == Ret(s, "False")

\* an ignore_mode branch that forgets to move the pointer
IgnoreStepNoAdvance(s, c) ==
    Ret([s EXCEPT !.ignore_mode = IF c \in {"|", "_"} THEN FALSE ELSE @], "True")

\* an ignore_mode branch that only | ends
IgnoreStepOnlyBar(s, c) ==
    Ret(Move([s EXCEPT !.ignore_mode = IF c = "|" THEN FALSE ELSE @]), "True")

\* an ignore_mode branch that only the character of the pointer's axis ends
IgnoreStepMatchingAxis(s, c) ==
    Ret(Move([s EXCEPT !.ignore_mode =
                 IF \/ c = "|" /\ s.direction \in {<<-1, 0>>, <<1, 0>>}
                    \/ c = "_" /\ s.direction \in {<<0, -1>>, <<0, 1>>}
                 THEN FALSE ELSE @]), "True")

\* the ignore_mode branch: | and _ clear the flag, every cell is skipped
IgnoreStep(s, c) ==
    Ret(Move([s EXCEPT !.ignore_mode = IF c \in {"|", "_"} THEN FALSE ELSE @]),
        "True")

\* the operands taken in the order they were popped
ArithValueSwapped(c, a, b) ==
    CASE c = "+" -> b + a
      [] c = "-" -> b - a
      [] c = "*" -> b * a

\* a digit: int(char) may raise ValueError
Digit(s, c) ==
    IF IntDefined(c) THEN Ret(Move([s EXCEPT !.stack = Append(@, IntOf(c))]), "True")
    ELSE Ret(s, "ValueError")

\* a + b, a - b, a * b for the opcode c
ArithValue(c, a, b) ==
    CASE c = "+" -> a + b
      [] c = "-" -> a - b
      [] c = "*" -> a * b

\* + - *: b = pop(), a = pop(), append(a op b); the first pop is not undone
\* when the second one fails
Arith(s, c) ==
    IF Len(s.stack) = 0 THEN Underflow(s)
    ELSE IF Len(s.stack) = 1 THEN Underflow([s EXCEPT !.stack = <<>>])
    ELSE LET b == Top(s.stack)
             a == Top(Pop(s.stack))
         IN  Ret(Move([s EXCEPT !.stack = Append(Pop(Pop(@)), ArithValue(c, a, b))]),
                 "True")

\* %: a // b; ZeroDivisionError is not caught by process_char
Divide(s) ==
    IF Len(s.stack) = 0 THEN Underflow(s)
    ELSE IF Len(s.stack) = 1 THEN Underflow([s EXCEPT !.stack = <<>>])
    ELSE LET b == Top(s.stack)
             a == Top(Pop(s.stack))
         IN  IF b = 0
             THEN Ret([s EXCEPT !.stack = Pop(Pop(@))], "ZeroDivisionError")
             ELSE Ret(Move([s EXCEPT !.stack = Append(Pop(Pop(@)), FloorDiv(a, b))]),
                      "True")

\* P
Discard(s) ==
    IF s.stack = <<>> THEN Underflow(s)
    ELSE Ret(Move([s EXCEPT !.stack = Pop(@)]), "True")

\* N writing its fragment in front of the earlier ones
OutputNumberInFront(s) ==
    IF s.stack = <<>> THEN Ret(s, "IndexError")
    ELSE Ret(Move([s EXCEPT !.stack = Pop(@),
                            !.output = <<Str(Top(s.stack))>> \o @]), "True")

\* N
OutputNumber(s) ==
    IF s.stack = <<>> THEN Underflow(s)
    ELSE Ret(Move([s EXCEPT !.stack = Pop(@),
                            !.output = Append(@, Str(Top(s.stack)))]), "True")

\* A writing its fragment twice
OutputCharTwice(s) ==
    IF s.stack = <<>> THEN Ret(s, "IndexError")
    ELSE IF Top(s.stack) < 0 \/ Top(s.stack) > 1114111
         THEN Ret([s EXCEPT !.stack = Pop(@)], "ValueError")
         ELSE Ret(Move([s EXCEPT !.stack = Pop(@),
                                 !.output = @ \o <<<<Top(s.stack)>>, <<Top(s.stack)>>>>]),
                  "True")

\* A: the value is popped before chr raises ValueError
OutputChar(s) ==
    IF s.stack = <<>> THEN Underflow(s)
    ELSE IF ~ChrDefined(Top(s.stack))
         THEN Ret([s EXCEPT !.stack = Pop(@)], "ValueError")
         ELSE Ret(Move([s EXCEPT !.stack = Pop(@),
                                 !.output = Append(@, Chr(Top(s.stack)))]), "True")

\* D copying the top instead of moving it
ToAdditionKeepsTop(s) ==
    IF s.stack = <<>> THEN Ret(s, "IndexError")
    ELSE Ret(Move([s EXCEPT !.addition_stack = Append(@, Top(s.stack))]), "True")

\* D
ToAddition(s) ==
    IF s.stack = <<>> THEN Underflow(s)
    ELSE Ret(Move([s EXCEPT !.stack = Pop(@),
                            !.addition_stack = Append(@, Top(s.stack))]), "True")

\* U
FromAddition(s) ==
    IF s.addition_stack = <<>> THEN Underflow(s)
    ELSE Ret(Move([s EXCEPT !.addition_stack = Pop(@),
                            !.stack = Append(@, Top(s.addition_stack))]), "True")

\* a copy of the first element instead of the last
CopyFirst(s) ==
    IF s.stack = <<>> THEN Ret(s, "IndexError")
    ELSE Ret(Move([s EXCEPT !.stack = Append(@, Head(@))]), "True")

\* C
Copy(s) ==
    IF s.stack = <<>> THEN Underflow(s)
    ELSE Ret(Move([s EXCEPT !.stack = Append(@, Top(@))]), "True")

\* I
Input(s) == Ret(s, "NotImplementedError")

\* | and _ that enter ignore_mode on either axis
BridgeAnyAxis(s, c) ==
    IF s.direction \in {<<-1, 0>>, <<1, 0>>, <<0, -1>>, <<0, 1>>}
    THEN Ret(Move([s EXCEPT !.ignore_mode = TRUE]), "True")
    ELSE Ret(Move(s), "True")

\* | and _ outside ignore_mode
Bridge(s, c) ==
    IF c = "|" /\ s.direction \in {<<-1, 0>>, <<1, 0>>}
    THEN Ret(Move([s EXCEPT !.ignore_mode = TRUE]), "True")
    ELSE IF c = "_" /\ s.direction \in {<<0, -1>>, <<0, 1>>}
         THEN Ret(Move([s EXCEPT !.ignore_mode = TRUE]), "True")
         ELSE Ret(Move(s), "True")

\* \ turning the way / does
TurnValueSame(c, val, d) ==
    IF val = 0 THEN TURN_LEFT(d) ELSE TURN_RIGHT(d)

\* / turns left on 0 and right otherwise, \ the other way round
TurnValue(c, val, d) ==
    IF c = "/"
    THEN IF val = 0 THEN TURN_LEFT(d) ELSE TURN_RIGHT(d)
    ELSE IF val = 0 THEN TURN_RIGHT(d) ELSE TURN_LEFT(d)

\* / and \: the value is popped, then the table is indexed by the direction;
\* the table has no entry for (0, 0) and KeyError is not caught
Turn(s, c) ==
    IF s.stack = <<>> THEN Underflow(s)
    ELSE IF s.direction \notin UnitVectors
         THEN Ret([s EXCEPT !.stack = Pop(@)], "KeyError")
         ELSE LET val == Top(s.stack)
                  d   == TurnValue(c, val, s.direction)
              IN  Ret(Move([s EXCEPT !.stack = Pop(@), !.direction = d]), "True")

\* Interpreter.process_char
ProcessChar(s, c) ==
    IF c = "" THEN BlankStep(s)
    ELSE IF s.ignore_mode THEN IgnoreStep(s, c)
    ELSE IF c \in DirectionChars
         THEN Ret(Move([s EXCEPT !.direction = DIRECTIONS(c)]), "True")
    ELSE IF IsDigit(c) THEN Digit(s, c)
    ELSE IF c \in {"+", "-", "*"} THEN Arith(s, c)
    ELSE IF c = "%" THEN Divide(s)
    ELSE IF c = "P" THEN Discard(s)
    ELSE IF c = "N" THEN OutputNumber(s)
    ELSE IF c = "A" THEN OutputChar(s)
    ELSE IF c = "D" THEN ToAddition(s)
    ELSE IF c = "U" THEN FromAddition(s)
    ELSE IF c = "C" THEN Copy(s)
    ELSE IF c = "I" THEN Input(s)
    ELSE IF c \in {"|", "_"} THEN Bridge(s, c)
    ELSE IF c \in {"/", "\\"} THEN Turn(s, c)
    ELSE Ret(Move(s), "True")

\* Interpreter.get_output
GetOutput(s) == Join(s.output)

\* the fields of the interpreter become those of s
SetState(s) ==
    /\ stack' = s.stack
    /\ addition_stack' = s.addition_stack
    /\ output' = s.output
    /\ x' = s.x
    /\ y' = s.y
    /\ direction' = s.direction
    /\ ignore_mode' = s.ignore_mode

\* Interpreter.reset: ignore_mode is not among the fields it assigns
ResetState(s) ==
    [s EXCEPT !.stack = <<>>, !.addition_stack = <<>>, !.output = <<>>,
              !.x = 0, !.y = 0, !.direction = <<0, 0>>]

(***************************************************************************)
(* A driver that calls process_char and reset itself, as the debugger      *)
(* does: it may hand any character to process_char.                        *)
(***************************************************************************)
StepChars ==
    {"", "^", ">", "<", "V", "0", "2", "7", "+", "-", "*", "%", "P", "N", "A",
     "D", "U", "C", "I", "|", "_", "/", "\\", "x", ArabicThree, SuperscriptTwo}

\* nothing has happened yet in a call of run
NoHist ==
    [processed |-> 0,        \* calls of process_char made by this call of run
     blank_seen |-> FALSE,   \* an iteration found no character under the pointer
     fault_seen |-> FALSE,   \* process_char returned an IndexError
     after_fault |-> 0,      \* calls of process_char after the first IndexError
     from_init |-> FALSE,    \* run was called in the state __init__ leaves
     chars |-> <<>>]         \* the characters handed to process_char, in order

NoCall == [op |-> "none", char |-> "", result |-> "None", pre |-> InitState]

NoGridCall ==
    [op |-> "none", text |-> <<>>, col |-> 0, row |-> 0, result |-> "None",
     before |-> None]

\* no debugger window: the interpreter is driven directly
NoWindow ==
    [rows |-> 0, cols |-> 0, cells |-> <<>>, highlight_row |-> 0,
     highlight_col |-> 0, auto_run |-> "None", timer |-> FALSE,
     current_step |-> 0, step_count_total |-> 0, dialogs |-> 0,
     aborted |-> FALSE, event |-> "none", load |-> "none", opened |-> <<>>,
     exported |-> <<>>, executed |-> 0, blank |-> FALSE,
     pre |-> [auto_run |-> "None", calls |-> 0, state |-> InitState]]

\* the state after Interpreter(program_input); None and "" both leave the
\* interpreter asking for its input
Constructed(program_input) ==
    /\ built_in_input = (program_input = None)
    /\ input = program_input
    /\ input_pointer = 0
    /\ grid_call = NoGridCall
    /\ program = None
    /\ stack = InitState.stack
    /\ addition_stack = InitState.addition_stack
    /\ output = InitState.output
    /\ x = InitState.x
    /\ y = InitState.y
    /\ direction = InitState.direction
    /\ ignore_mode = InitState.ignore_mode
    /\ calls = 0
    /\ last = NoCall
    /\ run_pc = "idle"
    /\ run_steps = 0
    /\ run_i = 0
    /\ run_result = "None"
    /\ run_hist = NoHist

Init == Constructed(None) /\ script = <<>> /\ dbg = NoWindow

runVars == <<run_pc, run_steps, run_i, run_result, run_hist>>

inputVars == <<built_in_input, input, input_pointer>>

\* the driver calls process_char(c)
Step(c) ==
    /\ calls < MaxCalls
    /\ LET r == ProcessChar(State, c)
       IN  /\ SetState(r.state)
           /\ last' = [op |-> "process_char", char |-> c, result |-> r.result,
                       pre |-> State]
    /\ calls' = calls + 1
    /\ UNCHANGED <<program, runVars, script, inputVars, dbg,
                   grid_call>>

\* the driver calls reset()
Reset ==
    /\ calls < MaxCalls
    /\ SetState(ResetState(State))
    /\ last' = [op |-> "reset", char |-> "", result |-> "None", pre |-> State]
    /\ calls' = calls + 1
    /\ UNCHANGED <<program, runVars, script, inputVars, dbg,
                   grid_call>>

Next ==
    \/ \E c \in StepChars : Step(c)
    \/ Reset

Spec == Init /\ [][Next]_vars

(***************************************************************************)
(* GridMap: a program file is read character by character into rows.       *)
(***************************************************************************)
RECURSIVE ReadChars(_, _, _)
\* the loop over map_file.read(1): a newline ends the row, a space is a
\* blank cell, every other character is kept
ReadChars(text, grid, temp) ==
    IF text = <<>> THEN [grid |-> grid, temp |-> temp]
    ELSE LET char == Head(text)
         IN  IF char = "\n" THEN ReadChars(Tail(text), Append(grid, temp), <<>>)
             ELSE IF char = " " THEN ReadChars(Tail(text), grid, Append(temp, ""))
             ELSE ReadChars(Tail(text), grid, Append(temp, char))

\* the rows read, the last one counted when it is not empty
GridRows(text) ==
    LET r == ReadChars(text, <<>>, <<>>)
    IN  IF r.temp # <<>> THEN Append(r.grid, r.temp) ELSE r.grid

RowsError == "ValueError: All rows must be of the same length"

EmptyError == "ValueError: Map is cannot be empty"

\* GridMap.__init__ on a file holding text: grid[0] of no rows raises
\* IndexError before either check is made
GridMapInit(text) ==
    LET grid == GridRows(text)
    IN  IF grid = <<>> THEN [result |-> "IndexError", map |-> None]
        ELSE IF \E i \in 1..Len(grid) : Len(grid[i]) # Len(grid[1])
             THEN [result |-> RowsError, map |-> None]
        ELSE IF Len(grid) * Len(grid[1]) = 0
             THEN [result |-> EmptyError, map |-> None]
        ELSE [result |-> "ok", map |-> grid]

(***************************************************************************)
(* A batch driver: it loads a program and calls run.                       *)
(***************************************************************************)
\* the one-row program 5N
P5N == << <<"5", "N">> >>

\* the program >65*N over a blank row
P65 == << <<">", "6", "5", "*", "N">>, <<"", "", "", "", "">> >>

\* N meets an empty stack
PFault == << <<">", "N">> >>

\* a cycle that never reaches a blank cell
PLoop == << <<">", "V">>, <<"^", "<">> >>

\* a blank cell inside the grid
PBlank == << <<">", "1", "">> >>

\* a bridge over one cell
PBridge == << <<">", "|", "7", "|", "2", "N">> >>

\* a division by zero
PDiv == << <<">", "0", "0", "%">> >>

\* a pointer that leaves the grid by its west edge
PWest == << <<"<", "1">> >>

Programs == {P5N, P65, PFault, PLoop, PBlank, PBridge, PDiv, PWest}

\* the files of these programs
ProgramTexts ==
    {<<"5", "N">>,
     <<">", "6", "5", "*", "N", "\n", " ", " ", " ", " ", " ", "\n">>,
     <<">", "N">>,
     <<">", "V", "\n", "^", "<">>,
     <<">", "1", " ">>,
     <<">", "|", "7", "|", "2", "N", "\n">>,
     <<">", "0", "0", "%">>,
     <<"<", "1">>}

Budgets == -1..MaxBudget

\* a lookup without the test for negative coordinates: they count from the end
GetItemFromEnd(grid, col, row) ==
    IF col >= Len(grid[1]) \/ row >= Len(grid) \/ col < -Len(grid[1]) \/ row < -Len(grid)
    THEN "False"
    ELSE grid[(row % Len(grid)) + 1][(col % Len(grid[1])) + 1]

\* GridMap.get_item
GetItem(grid, col, row) ==
    IF col < 0 \/ row < 0 \/ col >= Len(grid[1]) \/ row >= Len(grid)
    THEN FalseItem
    ELSE grid[row + 1][col + 1]

\* a test that only the blank cell passes
NotCharOnlyBlank(c) == c = ""

\* not char
NotChar(c) == c = "" \/ c = FalseItem

\* Interpreter.load_program on a file holding text; no call of run is under
\* way or remembered after it
LoadProgram(text) ==
    /\ run_pc # "loop"
    /\ calls < MaxRunCalls
    /\ program' = IF GridMapInit(text).result = "ok" THEN GridMapInit(text).map
                  ELSE program
    /\ grid_call' = [op |-> "GridMap", text |-> text, col |-> 0, row |-> 0,
                     result |-> GridMapInit(text).result, before |-> program]
    /\ last' = [op |-> "load_program", char |-> "", result |-> "None", pre |-> State]
    /\ calls' = calls + 1
    /\ run_pc' = "idle"
    /\ run_steps' = 0
    /\ run_i' = 0
    /\ run_result' = "None"
    /\ run_hist' = NoHist
    /\ UNCHANGED <<stack, addition_stack, output, x, y, direction, ignore_mode, script,
                   inputVars, dbg>>

\* Interpreter.get_current_char
GetCurrentChar(s, grid) == IF grid # None THEN GetItem(grid, s.x, s.y) ELSE ""

\* Interpreter.get_information
GetInformation(s, grid) ==
    [output |-> GetOutput(s),
     stack |-> s.stack,
     addition_stack |-> s.addition_stack,
     position |-> <<s.x, s.y>>,
     direction |-> s.direction,
     character |-> GetCurrentChar(s, grid),
     ignore_mode |-> s.ignore_mode]

\* Interpreter.run, up to its loop: a negative steps raises ValueError, and
\* steps = 0 makes max_iterations float('inf'), which range() refuses
RunCall(n) ==
    /\ run_pc # "loop"
    /\ calls < MaxRunCalls
    /\ calls' = calls + 1
    /\ run_steps' = n
    /\ run_i' = 0
    /\ run_hist' = [NoHist EXCEPT !.from_init = (State = InitState)]
    /\ last' = [op |-> "run", char |-> "", result |-> "None", pre |-> State]
    /\ IF n < 0 THEN run_pc' = "raised" /\ run_result' = "ValueError"
       ELSE IF n = 0 THEN run_pc' = "raised" /\ run_result' = "TypeError"
       ELSE run_pc' = "loop" /\ run_result' = "None"
    /\ UNCHANGED <<program, stack, addition_stack, output, x, y, direction, ignore_mode,
                   script, inputVars, dbg,
                   grid_call>>

\* one iteration of run's loop
RunIter ==
    /\ run_pc = "loop"
    /\ run_i < run_steps
    /\ run_i' = run_i + 1
    /\ UNCHANGED <<program, calls, run_steps, script, inputVars, dbg>>
    /\ IF program = None
       THEN /\ run_pc' = "raised"
            /\ run_result' = "AttributeError"
            /\ UNCHANGED <<stack, addition_stack, output, x, y, direction,
                           ignore_mode, last, run_hist, grid_call>>
       ELSE LET char == GetItem(program, x, y)
                r    == ProcessChar(State, char)
            IN  /\ grid_call' = [op |-> "get_item", text |-> <<>>, col |-> x,
                                 row |-> y, result |-> char, before |-> program]
                /\ IF NotChar(char)
                   THEN /\ run_hist' = [run_hist EXCEPT !.blank_seen = TRUE]
                        /\ UNCHANGED <<stack, addition_stack, output, x, y, direction,
                                       ignore_mode, last, run_pc, run_result>>
                   ELSE /\ SetState(r.state)
                        /\ last' = [op |-> "process_char", char |-> char,
                                    result |-> r.result, pre |-> State]
                        /\ run_hist' =
                               [run_hist EXCEPT
                                   !.processed = @ + 1,
                                   !.chars = Append(@, char),
                                   !.fault_seen = @ \/ r.result = "IndexError",
                                   !.after_fault = IF run_hist.fault_seen THEN @ + 1 ELSE @]
                        /\ IF r.result = "False"
                           THEN run_pc' = "returned" /\ run_result' = "False"
                           ELSE IF r.result \in {"True", "IndexError"}
                                THEN UNCHANGED <<run_pc, run_result>>
                                ELSE run_pc' = "raised" /\ run_result' = r.result

\* the loop is over: return 0 < steps
RunReturn ==
    /\ run_pc = "loop"
    /\ run_i = run_steps
    /\ run_pc' = "returned"
    /\ run_result' = IF 0 < run_steps THEN "True" ELSE "False"
    /\ UNCHANGED <<program, stack, addition_stack, output, x, y, direction,
                   ignore_mode, calls, last, run_steps, run_i, run_hist, script, inputVars, dbg,
                   grid_call>>

NextRun ==
    \/ \E text \in ProgramTexts : LoadProgram(text)
    \/ \E n \in Budgets : RunCall(n)
    \/ RunIter
    \/ RunReturn

SpecRun == Init /\ [][NextRun]_vars


FileChars == {"5", " ", "\n"}

Texts == UNION {[1..k -> FileChars] : k \in 0..MaxText}

\* beyond every grid of MaxText characters, and before its first cell
Coords == -1..MaxText

\* Interpreter.load_program on a file holding text: self.program is assigned
\* only when GridMap() returns.  The driver loads a file, at most one other
\* file over it, and looks cells up afterwards.
LoadFile(text) ==
    LET r == GridMapInit(text)
    IN  /\ \/ grid_call.op = "none"
           \/ grid_call.op = "GridMap" /\ grid_call.before = None
        /\ program' = IF r.result = "ok" THEN r.map ELSE program
        /\ grid_call' = [op |-> "GridMap", text |-> text, col |-> 0, row |-> 0,
                         result |-> r.result, before |-> program]
        /\ UNCHANGED <<stack, addition_stack, output, x, y, direction, ignore_mode,
                       calls, last, runVars, script, inputVars, dbg>>

\* self.program.get_item(col, row)
GetItemCall(col, row) ==
    /\ program # None
    /\ grid_call' = [op |-> "get_item", text |-> <<>>, col |-> col, row |-> row,
                     result |-> GetItem(program, col, row), before |-> program]
    /\ UNCHANGED <<program, stack, addition_stack, output, x, y, direction,
                   ignore_mode, calls, last, runVars, script, inputVars, dbg>>

NextGrid ==
    \/ \E text \in Texts : LoadFile(text)
    \/ \E col \in Coords, row \in Coords : GetItemCall(col, row)

SpecGrid == Init /\ [][NextGrid]_vars

\* ---- a driver that feeds process_char the cells of a straight path ----

SeqsUpTo(S, n) == UNION {[1..k -> S] : k \in 0..n}

\* cells crossed in ignore_mode, the cell that ends it, the cell after it
SkippedChars == {"N", "P", "V", "2", "I", "/", "x"}

BridgeEnds == {"|", "_"}

ResumeChars == {"N", "2", "V", "|"}

\* 7 > | w t c : push 7, head east, enter the bridge, cross w, leave on t, run c
BridgeScripts ==
    {<<"7", ">", "|">> \o w \o <<t, c>> :
        w \in SeqsUpTo(SkippedChars, MaxSkipped), t \in BridgeEnds, c \in ResumeChars}

TurnOperands == {"0", "2"}

TurnChars == {"/", "\\"}

\* the pairs <<operand, turn>> written one after the other
Flatten(f) ==
    [i \in 1..(2 * Len(f)) |-> f[(i + 1) \div 2][IF i % 2 = 1 THEN 1 ELSE 2]]

\* d (v t)* : set a direction, then push an operand and turn, up to MaxTurns times
TurnScripts ==
    {<<d>> \o Flatten(f) :
        d \in DirectionChars, f \in SeqsUpTo(TurnOperands \X TurnChars, MaxTurns)}

OperandDigits == {"2", "4", "7"}

\* a digit n pushes n, and 0 n - leaves -n
OperandScripts ==
    {<<n>> : n \in OperandDigits} \cup {<<"0", n, "-">> : n \in OperandDigits}

\* a b % for operands of either sign
DivisionScripts == {a \o b \o <<"%">> : a \in OperandScripts, b \in OperandScripts}

\* I I ... : read the input character by character
InputScripts == {[i \in 1..k |-> "I"] : k \in 1..MaxInputs}

Scripts == BridgeScripts \cup TurnScripts \cup DivisionScripts \cup InputScripts

\* the text given to Interpreter(program_input), as code points
ProgramInputs == {None, <<65>>, <<65, 66>>}

InitScript == \E program_input \in ProgramInputs :
                  Constructed(program_input) /\ script \in Scripts /\ dbg = NoWindow

\* the driver calls process_char on the next cell of the path
ScriptStep ==
    /\ calls < Len(script)
    /\ LET c == script[calls + 1]
           r == ProcessChar(State, c)
       IN  /\ SetState(r.state)
           /\ last' = [op |-> "process_char", char |-> c, result |-> r.result,
                       pre |-> State]
    /\ calls' = calls + 1
    /\ UNCHANGED <<program, runVars, script, inputVars, dbg,
                   grid_call>>

NextScript == ScriptStep

SpecScript == InitScript /\ [][NextScript]_vars

(***************************************************************************)
(* The debugger (debugger.py): a window holding a grid of one-character    *)
(* cells, an interpreter and a timer whose ticks call step.  A handler     *)
(* runs to its end before the next event is taken, except that a warning   *)
(* box keeps its handler waiting while the timer goes on ticking.          *)
(***************************************************************************)
\* the value both spin boxes of the grid's size start with
DefaultSpin == 25

\* the sizes the user sets the spin boxes to
SpinValues == {1, 2, DefaultSpin}

Min(a, b) == IF a < b THEN a ELSE b

\* CellGrid.init_ui: rows x cols cells without text
EmptyCells(rows, cols) == [r \in 1..rows |-> [c \in 1..cols |-> ""]]

\* MainWindow.initUI: the window over CellGrid(rows, cols)
MainWindow(rows, cols) ==
    [NoWindow EXCEPT !.rows = rows, !.cols = cols,
                     !.cells = EmptyCells(rows, cols)]

\* CellGrid.set_grid_size: the new cells take the old text where both grids
\* have a cell, and the pointer's highlight is kept inside
SetGridSize(d, rows, cols) ==
    [d EXCEPT !.rows = rows, !.cols = cols,
              !.cells = [r \in 1..rows |-> [c \in 1..cols |->
                            IF r <= d.rows /\ c <= d.cols THEN d.cells[r][c]
                            ELSE ""]],
              !.highlight_row = Min(d.highlight_row, rows - 1),
              !.highlight_col = Min(d.highlight_col, cols - 1)]

\* on_open's loop over the cells of the file, row by row: the first cell the
\* grid does not have raises IndexError, the cells before it keep the text
\* of the file
FillCells(d, grid) ==
    LET h == Len(grid)
        w == Len(grid[1])
        IsSet(r, c) == IF w <= d.cols THEN r <= h /\ c <= w
                       ELSE r = 1
    IN  [d EXCEPT !.cells = [r \in 1..d.rows |-> [c \in 1..d.cols |->
                                IF IsSet(r, c) THEN grid[r][c]
                                ELSE d.cells[r][c]]]]

\* MainWindow.on_open on a file holding text: every exception ends in the
\* "load error" box
OnOpenFile(d, text) ==
    LET r == GridMapInit(text)
    IN  IF r.result # "ok" THEN [d EXCEPT !.load = "load error"]
        ELSE LET sized == SetGridSize(d, d.rows, d.cols)
                 fits == Len(r.map) <= d.rows /\ Len(r.map[1]) <= d.cols
             IN  [FillCells(sized, r.map) EXCEPT
                      !.load = IF fits THEN "ok" ELSE "load error"]

\* MainWindow.on_export: one line per row of the grid, a cell without text
\* written as a space
ExportText(d) ==
    [k \in 1..(d.rows * (d.cols + 1)) |->
        LET r == ((k - 1) \div (d.cols + 1)) + 1
            c == ((k - 1) % (d.cols + 1)) + 1
        IN  IF c = d.cols + 1 THEN "\n"
            ELSE IF d.cells[r][c] = "" THEN " "
            ELSE d.cells[r][c]]

interpreterVars ==
    <<program, stack, addition_stack, output, x, y, direction, ignore_mode,
      calls, last, runVars, script, inputVars, grid_call>>

InitExport ==
    /\ Constructed(None)
    /\ script = <<>>
    /\ dbg = MainWindow(DefaultSpin, DefaultSpin)

\* the user changes a spin box: resize_grid
ResizeGrid(rows, cols) ==
    /\ dbg.event = "none"
    /\ dbg' = [SetGridSize(dbg, rows, cols) EXCEPT !.event = "resize"]
    /\ UNCHANGED interpreterVars

\* File / Open on a file holding text
OnOpen(text) ==
    /\ dbg.event \in {"none", "resize"}
    /\ dbg' = [OnOpenFile(dbg, text) EXCEPT !.event = "open", !.opened = text]
    /\ UNCHANGED interpreterVars

\* File / Export: the text written to the file
OnExport ==
    /\ dbg.event # "export"
    /\ dbg' = [dbg EXCEPT !.event = "export", !.exported = ExportText(dbg)]
    /\ UNCHANGED interpreterVars

NextExport ==
    \/ \E rows \in SpinValues, cols \in SpinValues : ResizeGrid(rows, cols)
    \/ \E text \in Texts : OnOpen(text)
    \/ OnExport

SpecExport == InitExport /\ [][NextExport]_vars

(***************************************************************************)
(* Auto-run: Run starts the timer, every tick calls step, as the Step      *)
(* button does; stop stops the timer.  The program is what the user typed  *)
(* into the cells.  An exception that leaves a handler ends the            *)
(* application (PyQt5 hands it to qFatal; no excepthook is installed).     *)
(***************************************************************************)
\* the grids typed into the window
TypedGrids == {P5N, PFault, PLoop, PBlank, PDiv, PWest}

\* the step counts the user sets (step_count has the range 1..1000)
StepCounts == 1..MaxAutoSteps

\* whether a list of n items has the index i; -1 is its last item
IndexExists(i, n) == -n <= i /\ i < n

\* the place of list[i] counted from 1
ListIndex(i, n) == IF i < 0 THEN i + n + 1 ELSE i + 1

\* CellGrid.get_cell_data: the text of the cell under the pointer
GetCellData(d) ==
    d.cells[ListIndex(d.highlight_row, d.rows)][ListIndex(d.highlight_col, d.cols)]

\* a stop that clears auto_run and leaves the timer running
StopKeepsTimer(d) == [d EXCEPT !.auto_run = "False"]

\* MainWindow.stop
Stop(d) == [d EXCEPT !.timer = FALSE, !.auto_run = "False"]

\* MainWindow.edit_info for the interpreter state s: the highlight goes to
\* the pointer's cell; update_highlights raises IndexError when the grid has
\* no such cell
EditInfo(d, s) ==
    LET h == [d EXCEPT !.highlight_row = s.y, !.highlight_col = s.x]
    IN  IF IndexExists(s.y, d.rows) /\ IndexExists(s.x, d.cols) THEN h
        ELSE [h EXCEPT !.aborted = TRUE]

\* MainWindow.step after process_char: an exception leaves the handler, False
\* opens the "Invalid character" box, and every other result counts as a
\* step of the auto-run
AfterProcess(d, result, s) ==
    IF result \notin {"True", "False", "IndexError"}
    THEN [d EXCEPT !.aborted = TRUE]
    ELSE IF result = "False" THEN [d EXCEPT !.dialogs = @ + 1]
    ELSE IF d.auto_run = "True"
         THEN LET n == [d EXCEPT !.current_step = @ + 1]
              IN  EditInfo(IF n.current_step >= n.step_count_total
                           THEN Stop(n) ELSE n, s)
    ELSE EditInfo(d, s)

InitAuto ==
    /\ Constructed(None)
    /\ script = <<>>
    /\ \E grid \in TypedGrids :
          dbg = [MainWindow(Len(grid), Len(grid[1])) EXCEPT !.cells = grid]

\* MainWindow.run, with step_count set to n
RunClick(n) ==
    /\ ~dbg.aborted
    /\ dbg.dialogs = 0
    /\ dbg' = [dbg EXCEPT !.auto_run = "True", !.step_count_total = n,
                          !.current_step = 0, !.timer = TRUE,
                          !.executed = 0, !.event = "run", !.blank = FALSE]
    /\ UNCHANGED interpreterVars

\* MainWindow.step: a cell without text opens the "No character to process"
\* box, which keeps the handler waiting; every other cell goes to
\* process_char
StepEvent(kind) ==
    /\ ~dbg.aborted
    /\ LET char == GetCellData(dbg)
           snapshot == [auto_run |-> dbg.auto_run, calls |-> calls,
                        state |-> State]
       IN  IF char = ""
           THEN /\ dbg.dialogs < MaxDialogs
                /\ dbg' = [dbg EXCEPT !.dialogs = @ + 1, !.event = kind,
                                      !.blank = TRUE, !.pre = snapshot]
                /\ UNCHANGED interpreterVars
           ELSE /\ calls < MaxDbgCalls
                /\ LET r == ProcessChar(State, char)
                       counted == IF dbg.auto_run = "True"
                                  THEN [dbg EXCEPT !.executed = @ + 1]
                                  ELSE dbg
                   IN  /\ SetState(r.state)
                       /\ last' = [op |-> "process_char", char |-> char,
                                   result |-> r.result, pre |-> State]
                       /\ dbg' = [AfterProcess(counted, r.result, r.state)
                                     EXCEPT !.event = kind, !.blank = FALSE,
                                            !.pre = snapshot]
                /\ calls' = calls + 1
                /\ UNCHANGED <<program, runVars, script, inputVars, grid_call>>

\* the timer's timeout, while the timer is active
Tick ==
    /\ dbg.timer
    /\ StepEvent("tick")

\* the Step button; a warning box takes the clicks while it is open
StepClick ==
    /\ dbg.dialogs = 0
    /\ StepEvent("step")

\* the user closes a warning box: its handler goes on with stop()
Dismiss ==
    /\ ~dbg.aborted
    /\ dbg.dialogs > 0
    /\ dbg' = [EditInfo(Stop([dbg EXCEPT !.dialogs = @ - 1]), State)
                  EXCEPT !.event = "dismiss"]
    /\ UNCHANGED interpreterVars

\* the Stop button
StopClick ==
    /\ ~dbg.aborted
    /\ dbg.dialogs = 0
    /\ dbg' = [Stop(dbg) EXCEPT !.event = "stop", !.blank = FALSE]
    /\ UNCHANGED interpreterVars

\* the Reset button: MainWindow.reset
ResetClick ==
    /\ ~dbg.aborted
    /\ dbg.dialogs = 0
    /\ SetState(ResetState(State))
    /\ last' = [op |-> "reset", char |-> "", result |-> "None", pre |-> State]
    /\ dbg' = [EditInfo(dbg, ResetState(State))
                  EXCEPT !.event = "reset", !.blank = FALSE]
    /\ UNCHANGED <<program, calls, runVars, script, inputVars, grid_call>>

NextAuto ==
    \/ \E n \in StepCounts : RunClick(n)
    \/ Tick
    \/ StepClick
    \/ Dismiss
    \/ StopClick
    \/ ResetClick

SpecAuto == InitAuto /\ [][NextAuto]_vars

(***************************************************************************)
(* The claims.  `last` holds the last call and the state before it, so a   *)
(* claim about one step compares last.pre with the current state.          *)
(***************************************************************************)
LastStep == last.op = "process_char"

Pre == last.pre

\* the pointer moved by the direction held before the step
AdvancedByPre == x = Pre.x + Pre.direction[1] /\ y = Pre.y + Pre.direction[2]

DataAndDirectionKept ==
    /\ stack = Pre.stack
    /\ addition_stack = Pre.addition_stack
    /\ output = Pre.output
    /\ direction = Pre.direction

\* C1 as stated: with ignore_mode set, every character, a blank one included,
\* is skipped: the step returns True, moves the pointer by the direction and
\* keeps both stacks, the output and the direction; it never returns False.
C1_BridgeSkipsEveryChar ==
    (LastStep /\ Pre.ignore_mode) =>
        (last.result = "True" /\ AdvancedByPre /\ DataAndDirectionKept)

\* C1 as amended: with ignore_mode set, every non-blank character is skipped
\* (True, pointer moved by the direction, stacks, output and direction kept);
\* a blank character returns False and changes nothing, ignore_mode included:
\* the blank-cell test comes first.
C1_BridgeSkipsNonBlank ==
    (LastStep /\ Pre.ignore_mode) =>
        IF last.char = ""
        THEN last.result = "False" /\ State = Pre
        ELSE last.result = "True" /\ AdvancedByPre /\ DataAndDirectionKept

C1_Witness ==
    /\ LastStep
    /\ Pre.ignore_mode
    /\ last.char = "N"
    /\ Pre.stack # <<>>
    /\ Pre.direction \in UnitVectors
    /\ last.result = "True"

\* C2: with ignore_mode clear, process_char on a blank character returns False
\* and leaves position, direction, both stacks, the output and ignore_mode as
\* they were.
C2_BlankHaltsAndKeepsState ==
    (LastStep /\ ~Pre.ignore_mode /\ last.char = "") =>
        (last.result = "False" /\ State = Pre)

C2_Witness ==
    /\ LastStep
    /\ ~Pre.ignore_mode
    /\ last.char = ""
    /\ Pre.stack # <<>>
    /\ Pre.direction \in UnitVectors
    /\ last.result = "False"

PopsTwo == {"+", "-", "*", "%"}

PopsOne == {"P", "N", "A", "D", "C", "/", "\\"}

\* the opcode last.char was executed on a stack too short for it
ExecutedShort ==
    /\ LastStep
    /\ ~Pre.ignore_mode
    /\ \/ last.char \in PopsTwo /\ Len(Pre.stack) < 2
       \/ last.char \in PopsOne /\ Len(Pre.stack) < 1
       \/ last.char = "U" /\ Pre.addition_stack = <<>>

\* C3: an opcode among + - * % P N A D C / \ executed on a stack shorter than
\* what it pops, and U executed on an empty addition_stack, return the
\* IndexError and leave position and direction as they were.
C3_UnderflowKeepsPointer ==
    ExecutedShort =>
        /\ last.result = "IndexError"
        /\ x = Pre.x
        /\ y = Pre.y
        /\ direction = Pre.direction

C3_Witness ==
    /\ ExecutedShort
    /\ last.char = "+"
    /\ Len(Pre.stack) = 1
    /\ Pre.direction \in UnitVectors
    /\ last.result = "IndexError"

RunOver == run_pc \in {"returned", "raised"}

\* C4: once the pointer stands on a blank cell with ignore_mode clear, a call
\* of run (steps = 0 included) ends by returning.
C4_RunReturnsOnBlankCell ==
    (/\ RunOver
     /\ run_steps >= 0
     /\ program # None
     /\ GetItem(program, x, y) = ""
     /\ ~ignore_mode) => run_pc = "returned"

\* C5: once process_char has returned an IndexError inside run, run calls
\* process_char no more and the IndexError is what run reports.
C5_RunEndsOnFirstFault ==
    (RunOver /\ run_hist.fault_seen) =>
        (run_hist.after_fault = 0 /\ run_result = "IndexError")

\* C6: run with steps = n > 0 makes at most n iterations, and the result of a
\* budget that ran out (True) is given only when no iteration met a blank
\* cell or an IndexError before: it tells the three endings apart.
C6_BudgetResultIsDistinct ==
    (run_steps > 0 /\ run_pc # "idle") =>
        /\ run_i <= run_steps
        /\ (run_pc = "returned" /\ run_result = "True") =>
               (~run_hist.blank_seen /\ ~run_hist.fault_seen)

\* C7: run(steps = n), n > 0, returns False when an iteration found the
\* pointer on a blank cell, and True only when process_char was called n
\* times.
C7_RunResultTellsTermination ==
    (run_steps > 0 /\ run_pc = "returned") =>
        /\ run_hist.blank_seen => run_result = "False"
        /\ run_result = "True" => run_hist.processed = run_steps

\* C8 as stated: run on the program 5N from the initial state ends having
\* executed 5 and N once each, with the output "5".
C8_Run5NOutputs5 ==
    (RunOver /\ program = P5N /\ run_hist.from_init /\ run_steps >= 2) =>
        (run_hist.chars = <<"5", "N">> /\ Join(output) = <<53>>)

\* C8 as amended: on the program 5N from the initial state the pointer never
\* leaves (0, 0), the direction being (0, 0): each iteration of run(n), n > 0,
\* executes 5 again, N is never executed, the output stays empty, and run
\* returns True with n fives on the stack; run(0) raises TypeError before any
\* step.
C8_Run5NStaysOnFirstCell ==
    (program = P5N /\ run_hist.from_init /\ run_pc # "idle" /\ run_steps >= 0) =>
        /\ x = 0 /\ y = 0
        /\ direction = <<0, 0>>
        /\ output = <<>>
        /\ run_hist.processed = run_i
        /\ run_hist.chars = [k \in 1..run_i |-> "5"]
        /\ stack = [k \in 1..run_i |-> 5]
        /\ run_steps = 0 => (run_pc = "raised" /\ run_result = "TypeError" /\ run_i = 0)
        /\ run_steps > 0 => run_pc \in {"loop", "returned"}
        /\ run_pc = "returned" => (run_result = "True" /\ run_i = run_steps)

C8_Witness ==
    /\ program = P5N
    /\ run_hist.from_init
    /\ run_pc = "returned"
    /\ run_steps = 3
    /\ stack = <<5, 5, 5>>

\* C9: run on the program whose first row is >65*N, from the initial state
\* and with no budget or one of more than five steps, executes > 6 5 * N once
\* each in that order and halts with the output "30" and an empty stack.
C9_Run65Outputs30 ==
    (/\ RunOver
     /\ program = P65
     /\ run_hist.from_init
     /\ (run_steps = 0 \/ run_steps > 5)) =>
        /\ run_pc = "returned"
        /\ run_result = "False"
        /\ run_hist.chars = <<">", "6", "5", "*", "N">>
        /\ Join(output) = <<51, 48>>
        /\ stack = <<>>

\* C10: reset yields the initial state: position (0, 0), direction (0, 0),
\* empty stacks, empty output and ignore_mode false.
C10_ResetYieldsInitialState ==
    last.op = "reset" => State = InitState

Continue == "True"

Halt == "False"

Fault == "IndexError"

\* C11: process_char is total: every call returns True, False or the
\* IndexError; no other error leaves it.
C11_StepIsTotal ==
    LastStep => last.result \in {Continue, Halt, Fault}

Horizontal == {<<1, 0>>, <<-1, 0>>}

Vertical == {<<0, -1>>, <<0, 1>>}

\* the pointer moved by the direction held after the step
AdvancedByNew == x = Pre.x + direction[1] /\ y = Pre.y + direction[2]

LeftOf(d) == <<d[2], -d[1]>>

RightOf(d) == <<-d[2], d[1]>>

TurnExecuted ==
    /\ LastStep
    /\ ~Pre.ignore_mode
    /\ last.char \in {"/", "\\"}
    /\ Pre.stack # <<>>
    /\ Pre.direction \in UnitVectors

\* C15: on a non-empty stack and a unit direction, / pops v and turns left
\* when v = 0 and right otherwise, \ pops v and turns right when v = 0 and
\* left otherwise; the two turns are opposite, and the step moves one cell in
\* the new direction.
C15_TurnByOperand ==
    TurnExecuted =>
        LET v == Top(Pre.stack)
            d == Pre.direction
        IN  /\ last.result = Continue
            /\ stack = Pop(Pre.stack)
            /\ last.char = "/" => direction = IF v = 0 THEN LeftOf(d) ELSE RightOf(d)
            /\ last.char = "\\" => direction = IF v = 0 THEN RightOf(d) ELSE LeftOf(d)
            /\ ProcessChar(Pre, "/").state.direction =
                   <<-ProcessChar(Pre, "\\").state.direction[1],
                     -ProcessChar(Pre, "\\").state.direction[2]>>
            /\ AdvancedByNew

C15_Witness ==
    /\ TurnExecuted
    /\ last.char = "\\"
    /\ Top(Pre.stack) = 0
    /\ Pre.direction = <<1, 0>>
    /\ direction = <<0, 1>>
    /\ y = Pre.y + 1

North == <<0, -1>>

South == <<0, 1>>

East == <<1, 0>>

West == <<-1, 0>>

\* the step turned the pointer right: / on a non-zero value, \ on 0
TurnedRight ==
    /\ TurnExecuted
    /\ (last.char = "/") = (Top(Pre.stack) # 0)

TurnedLeft ==
    /\ TurnExecuted
    /\ (last.char = "/") = (Top(Pre.stack) = 0)

DirectionSet == LastStep /\ ~Pre.ignore_mode /\ last.char \in DirectionChars

NamedDirections ==
    DirectionSet =>
        direction = CASE last.char = "^" -> North
                      [] last.char = ">" -> East
                      [] last.char = "<" -> West
                      [] last.char = "V" -> South

\* C17 as stated: a right turn follows north -> west -> south -> east ->
\* north and a left turn the reverse cycle, with north = (0,-1),
\* south = (0,1), east = (1,0), west = (-1,0).
C17_RightIsNorthWestSouthEast ==
    /\ NamedDirections
    /\ TurnedRight =>
           direction = CASE Pre.direction = North -> West
                         [] Pre.direction = West -> South
                         [] Pre.direction = South -> East
                         [] Pre.direction = East -> North
    /\ TurnedLeft =>
           direction = CASE Pre.direction = North -> East
                         [] Pre.direction = East -> South
                         [] Pre.direction = South -> West
                         [] Pre.direction = West -> North

\* C17 as amended: a right turn follows north -> east -> south -> west ->
\* north and a left turn the reverse cycle north -> west -> south -> east ->
\* north, with north = (0,-1), south = (0,1), east = (1,0), west = (-1,0).
C17_RightIsNorthEastSouthWest ==
    /\ NamedDirections
    /\ TurnedRight =>
           direction = CASE Pre.direction = North -> East
                         [] Pre.direction = East -> South
                         [] Pre.direction = South -> West
                         [] Pre.direction = West -> North
    /\ TurnedLeft =>
           direction = CASE Pre.direction = North -> West
                         [] Pre.direction = West -> South
                         [] Pre.direction = South -> East
                         [] Pre.direction = East -> North

C17_Witness ==
    /\ TurnedRight
    /\ Pre.direction = North
    /\ direction = East
    /\ x = Pre.x + 1

ArithExecuted ==
    /\ LastStep
    /\ ~Pre.ignore_mode
    /\ last.char \in {"+", "-", "*"}
    /\ Len(Pre.stack) >= 2

\* C18: on a stack of at least two values, b on top and a below it, + - *
\* replace the two by a + b, a - b, a * b, keep the rest of the stack, the
\* addition_stack and the output, and return True.
C18_ArithmeticOrder ==
    ArithExecuted =>
        LET n == Len(Pre.stack)
            b == Pre.stack[n]
            a == Pre.stack[n - 1]
        IN  /\ last.result = Continue
            /\ Len(stack) = n - 1
            /\ \A k \in 1..(n - 2) : stack[k] = Pre.stack[k]
            /\ last.char = "+" => stack[n - 1] = a + b
            /\ last.char = "-" => stack[n - 1] = a - b
            /\ last.char = "*" => stack[n - 1] = a * b
            /\ addition_stack = Pre.addition_stack
            /\ output = Pre.output

C18_Witness ==
    /\ ArithExecuted
    /\ last.char = "-"
    /\ Pre.stack = <<7, 2>>
    /\ stack = <<5>>

\* C20: on a non-empty stack s with top v, C leaves s followed by v: the
\* length grows by one and the earlier elements stay; addition_stack and
\* output are kept.
C20_CopyDuplicatesTop ==
    (LastStep /\ ~Pre.ignore_mode /\ last.char = "C" /\ Pre.stack # <<>>) =>
        /\ last.result = Continue
        /\ Len(stack) = Len(Pre.stack) + 1
        /\ \A k \in 1..Len(Pre.stack) : stack[k] = Pre.stack[k]
        /\ stack[Len(stack)] = Pre.stack[Len(Pre.stack)]
        /\ addition_stack = Pre.addition_stack
        /\ output = Pre.output

C20_Witness ==
    /\ LastStep
    /\ ~Pre.ignore_mode
    /\ last.char = "C"
    /\ Pre.stack = <<7, 2>>
    /\ stack = <<7, 2, 2>>

OnBridgeScript == script \in BridgeScripts

\* the cells crossed so far have changed nothing but the position
CrossingEast ==
    /\ stack = <<7>>
    /\ addition_stack = <<>>
    /\ output = <<>>
    /\ direction = East
    /\ x = calls - 1
    /\ y = 0
    /\ last.result = Continue

OnTurnScript == script \in TurnScripts

\* turn i of a turn script is a left turn: / on 0, or \ on a non-zero value
IsLeftTurn(i) == (script[2 * i + 1] = "/") = (script[2 * i] = "0")

\* d turned left by n quarter turns
Rotated(d, n) ==
    CASE n % 4 = 0 -> d
      [] n % 4 = 1 -> LeftOf(d)
      [] n % 4 = 2 -> <<-d[1], -d[2]>>
      [] n % 4 = 3 -> RightOf(d)

\* C16: TURN_LEFT and TURN_RIGHT are permutations of the four unit vectors
\* and inverse to each other; hence after any sequence of turns the direction
\* is the first one rotated by lefts minus rights quarter turns: four lefts
\* give the first direction back, three rights are one left.
C16_TurnsAreInversePermutations ==
    /\ {TURN_LEFT(d) : d \in UnitVectors} = UnitVectors
    /\ {TURN_RIGHT(d) : d \in UnitVectors} = UnitVectors
    /\ \A d \in UnitVectors :
        /\ TURN_LEFT(TURN_RIGHT(d)) = d
        /\ TURN_RIGHT(TURN_LEFT(d)) = d
    /\ (OnTurnScript /\ calls % 2 = 1) =>
        LET k == (calls - 1) \div 2
            lefts == Cardinality({i \in 1..k : IsLeftTurn(i)})
        IN  direction = Rotated(DIRECTIONS(script[1]), lefts + 3 * (k - lefts))

C16_Witness ==
    /\ script = <<">", "0", "/", "0", "/", "0", "/", "0", "/">>
    /\ calls = 9
    /\ direction = East
    /\ Pre.direction = South

\* C19: on a stack whose top b is not 0 and whose next value is a, % replaces
\* the two by the floor of a / b, the greatest integer q with q * b <= a for
\* b > 0 and with q * b >= a for b < 0, for every combination of signs.
C19_FloorDivision ==
    (LastStep /\ ~Pre.ignore_mode /\ last.char = "%" /\ Len(Pre.stack) >= 2
        /\ Top(Pre.stack) # 0) =>
        LET n == Len(Pre.stack)
            b == Pre.stack[n]
            a == Pre.stack[n - 1]
            q == stack[n - 1]
        IN  /\ last.result = Continue
            /\ Len(stack) = n - 1
            /\ \A k \in 1..(n - 2) : stack[k] = Pre.stack[k]
            /\ b > 0 => (q * b <= a /\ a < (q + 1) * b)
            /\ b < 0 => (q * b >= a /\ a > (q + 1) * b)
            /\ (a = -7 /\ b = 2) => q = -4
            /\ (a = 7 /\ b = -2) => q = -4

C19_Witness ==
    /\ script = <<"0", "7", "-", "2", "%">>
    /\ calls = 5
    /\ Pre.stack = <<-7, 2>>
    /\ stack = <<-4>>

Executed == LastStep /\ ~Pre.ignore_mode

\* process_char on Pre with an empty addition_stack instead of its own
WithoutSide == ProcessChar([Pre EXCEPT !.addition_stack = <<>>], last.char)

\* C21: D moves the top of stack onto addition_stack and U moves the top of
\* addition_stack onto stack; U right after D, and D right after U, give both
\* stacks back; no other opcode changes addition_stack or depends on it.
C21_TransferIsInvertible ==
    /\ (Executed /\ last.char = "D" /\ Pre.stack # <<>>) =>
        /\ last.result = Continue
        /\ stack = Pop(Pre.stack)
        /\ addition_stack = Append(Pre.addition_stack, Top(Pre.stack))
        /\ ProcessChar(State, "U").state.stack = Pre.stack
        /\ ProcessChar(State, "U").state.addition_stack = Pre.addition_stack
    /\ (Executed /\ last.char = "U" /\ Pre.addition_stack # <<>>) =>
        /\ last.result = Continue
        /\ addition_stack = Pop(Pre.addition_stack)
        /\ stack = Append(Pre.stack, Top(Pre.addition_stack))
        /\ ProcessChar(State, "D").state.stack = Pre.stack
        /\ ProcessChar(State, "D").state.addition_stack = Pre.addition_stack
    /\ (LastStep /\ (Pre.ignore_mode \/ last.char \notin {"D", "U"})) =>
        /\ addition_stack = Pre.addition_stack
        /\ WithoutSide.result = last.result
        /\ [WithoutSide.state EXCEPT !.addition_stack = addition_stack] = State

C21_Witness ==
    /\ Executed
    /\ last.char = "U"
    /\ Pre.stack = <<7>>
    /\ Pre.addition_stack = <<2>>
    /\ stack = <<7, 2>>
    /\ addition_stack = <<>>

\* C22: N pops the top value and appends one fragment, the decimal digits of
\* the value, at the end of output; get_output is the earlier text followed
\* by the fragment of each N and A step, and no other step changes it.
C22_NumberIsAppended ==
    /\ (Executed /\ last.char = "N" /\ Pre.stack # <<>>) =>
        LET v == Top(Pre.stack)
            digits == IF v < 0 THEN <<45>> \o NatDigits(-v) ELSE NatDigits(v)
        IN  /\ last.result = Continue
            /\ stack = Pop(Pre.stack)
            /\ output = Append(Pre.output, digits)
            /\ GetOutput(State) = GetOutput(Pre) \o digits
            /\ v = 7 => digits = <<55>>
            /\ v = -7 => digits = <<45, 55>>
            /\ v = 49 => digits = <<52, 57>>
    /\ (Executed /\ last.char = "A" /\ last.result = Continue) =>
        GetOutput(State) = GetOutput(Pre) \o <<Top(Pre.stack)>>
    /\ (LastStep /\ (Pre.ignore_mode \/ last.char \notin {"N", "A"})) =>
        GetOutput(State) = GetOutput(Pre)

C22_Witness ==
    /\ Executed
    /\ last.char = "N"
    /\ Pre.stack = <<2>>
    /\ Pre.output = <<<<55>>>>
    /\ output = <<<<55>>, <<50>>>>
    /\ GetOutput(State) = <<55, 50>>

\* C23: with ignore_mode clear, ^ > < V set the direction to north (0,-1),
\* east (1,0), west (-1,0), south (0,1) whatever it was before, the step
\* moves the pointer one cell that way, and both stacks, the output and
\* ignore_mode are kept.
C23_DirectionCharsSetDirection ==
    (Executed /\ last.char \in {"^", ">", "<", "V"}) =>
        /\ last.char = "^" => (direction = <<0, -1>> /\ x = Pre.x /\ y = Pre.y - 1)
        /\ last.char = ">" => (direction = <<1, 0>> /\ x = Pre.x + 1 /\ y = Pre.y)
        /\ last.char = "<" => (direction = <<-1, 0>> /\ x = Pre.x - 1 /\ y = Pre.y)
        /\ last.char = "V" => (direction = <<0, 1>> /\ x = Pre.x /\ y = Pre.y + 1)
        /\ last.result = Continue
        /\ stack = Pre.stack
        /\ addition_stack = Pre.addition_stack
        /\ output = Pre.output
        /\ ~ignore_mode

C23_Witness ==
    /\ Executed
    /\ last.char = "V"
    /\ Pre.direction = <<-1, 0>>
    /\ direction = <<0, 1>>
    /\ x = Pre.x
    /\ y = Pre.y + 1

Abs(n) == IF n < 0 THEN -n ELSE n

\* C24: a step that returns True moves the pointer by the direction held
\* after the opcode's effect, one cell along one axis, or not at all when the
\* direction is (0,0); no step moves it by more than one cell or diagonally.
C24_MovesOneCellAlongDirection ==
    LastStep =>
        /\ last.result = Continue =>
            /\ x = Pre.x + direction[1]
            /\ y = Pre.y + direction[2]
            /\ direction = <<0, 0>> => (x = Pre.x /\ y = Pre.y)
        /\ Abs(x - Pre.x) + Abs(y - Pre.y) <= 1

C24_Witness ==
    /\ Executed
    /\ last.char = "/"
    /\ last.result = Continue
    /\ Pre.direction = <<1, 0>>
    /\ direction = <<0, -1>>
    /\ x = Pre.x
    /\ y = Pre.y - 1

\* the driver reads a given input: every cell so far was an I
ReadingInput == script \in InputScripts /\ ~built_in_input /\ calls >= 1

\* C25: with an input string given and characters left in it, I pushes the
\* code point of the next character, moves the cursor on by one, moves the
\* pointer and returns True; successive I steps push the characters in order.
C25_InputPushesNextChar ==
    (ReadingInput /\ calls <= Len(input)) =>
        /\ last.result = Continue
        /\ stack = SubSeq(input, 1, calls)
        /\ input_pointer = calls
        /\ AdvancedByPre

\* C26: with an input string given and no character left in it, I returns
\* an error as an underflow does: the position, the direction, both stacks,
\* the output and the cursor stay as they were.
C26_ExhaustedInputFaults ==
    (ReadingInput /\ calls > Len(input)) =>
        /\ last.result = Fault
        /\ State = Pre
        /\ input_pointer = Len(input)

Width(grid) == Len(grid[1])

Height(grid) == Len(grid)

Inside(grid, col, row) == 0 <= col /\ col < Width(grid) /\ 0 <= row /\ row < Height(grid)

Cells(grid) == {grid[r][c] : r \in 1..Height(grid), c \in 1..Width(grid)}

\* C27: get_item(x, y) returns the stored cell exactly when 0 <= x < width
\* and 0 <= y < height and the out-of-bounds value for every other pair,
\* negative ones included; that value differs from every cell, the blank one
\* too, and the grid is the same after the call.
C27_GetItemInsideOrOutOfBounds ==
    grid_call.op = "get_item" =>
        LET col == grid_call.col
            row == grid_call.row
        IN  /\ Inside(program, col, row) => grid_call.result = program[row + 1][col + 1]
            /\ ~Inside(program, col, row) => grid_call.result = FalseItem
            /\ (grid_call.result \in Cells(program) \cup {""}) <=> Inside(program, col, row)
            /\ program = grid_call.before

C27_Witness ==
    /\ grid_call.op = "get_item"
    /\ program = << <<"5">>, <<"">> >>
    /\ grid_call.col = -1
    /\ grid_call.row = 1
    /\ grid_call.result = FalseItem

EmptySource == EmptyError

JaggedRows == RowsError

Loaded == grid_call.op = "GridMap"

\* C28: loading fails with the empty-map error for a text of no rows and for
\* one whose rows are all empty, with the row-length error when two rows
\* differ in length, and otherwise succeeds with a grid whose rows all have
\* the same non-zero length.
C28_LoadRejectsEmptyAndJagged ==
    Loaded =>
        LET rows == GridRows(grid_call.text)
            jagged == \E i, j \in 1..Len(rows) : Len(rows[i]) # Len(rows[j])
            empty == \A i \in 1..Len(rows) : rows[i] = <<>>
        IN  /\ empty => (grid_call.result = EmptySource /\ program = grid_call.before)
            /\ jagged => (grid_call.result = JaggedRows /\ program = grid_call.before)
            /\ (~empty /\ ~jagged) =>
                /\ grid_call.result = "ok"
                /\ program = rows
                /\ \A i \in 1..Len(program) : Len(program[i]) = Len(program[1])
                /\ Len(program[1]) > 0

Asked == grid_call.op = "get_item"

\* the last call of process_char was made by the call of run under way or
\* just over
StepOfRun == LastStep /\ run_hist.processed > 0

\* C29 as stated: every position run passes to get_item lies inside the
\* grid, 0 <= x < width and 0 <= y < height.
C29_RunNeverAsksOutside ==
    Asked => Inside(program, grid_call.col, grid_call.row)

\* C29 as amended: run does pass positions outside the grid to get_item; it
\* gets the out-of-bounds value for them and calls process_char for none of
\* them, so the pointer stays where it is, and every cell run executes is the
\* cell of a position inside the grid.
C29_RunExecutesOnlyInside ==
    /\ (Asked /\ ~Inside(program, grid_call.col, grid_call.row)) =>
        /\ grid_call.result = FalseItem
        /\ x = grid_call.col
        /\ y = grid_call.row
    /\ StepOfRun =>
        /\ Inside(program, Pre.x, Pre.y)
        /\ last.char = program[Pre.y + 1][Pre.x + 1]
        /\ last.char # ""

C29_Witness ==
    /\ Asked
    /\ program = PWest
    /\ grid_call.col = -1
    /\ grid_call.row = 0
    /\ run_pc = "returned"
    /\ run_hist.chars = <<"<">>
    /\ run_hist.blank_seen

InitialSnapshot ==
    [output |-> <<>>, stack |-> <<>>, addition_stack |-> <<>>,
     position |-> <<0, 0>>, direction |-> <<0, 0>>,
     character |-> program[1][1], ignore_mode |-> FALSE]

\* C30: right after load_program has loaded a valid file, get_information
\* reports position (0,0), both stacks and the output empty, no direction
\* and ignore_mode clear.
C30_LoadGivesInitialSnapshot ==
    (last.op = "load_program" /\ grid_call.result = "ok") =>
        GetInformation(State, program) = InitialSnapshot

\* the characters of the opcode table
OpcodeChars ==
    {"^", ">", "<", "V", "0", "1", "2", "3", "4", "5", "6", "7", "8", "9",
     "+", "-", "*", "%", "P", "N", "A", "D", "U", "C", "I", "|", "_", "/", "\\"}

\* C31: with ignore_mode clear, a non-blank character outside the opcode
\* table changes neither stack, addition_stack, output, direction nor
\* ignore_mode: the step only moves the pointer by the direction and returns
\* True.
C31_UnknownCharOnlyAdvances ==
    (Executed /\ last.char # "" /\ last.char \notin OpcodeChars) =>
        /\ last.result = Continue
        /\ DataAndDirectionKept
        /\ ~ignore_mode
        /\ AdvancedByPre

\* the grid GridMap reads from a text
MapOf(text) == GridMapInit(text).map

\* C32: round trip: opening a rectangular source and exporting the grid
\* back to text gives the original rectangle: one line for each of its
\* rows, one character for each of its columns, and in every place the
\* character of the cell, a space for a blank one.
C32_RoundTrip ==
    (dbg.event = "export" /\ dbg.load = "ok")
        => LET grid == MapOf(dbg.opened)
               h == Len(grid)
               w == Len(grid[1])
           IN  /\ Len(dbg.exported) = h * (w + 1)
               /\ \A r \in 1..h :
                     /\ dbg.exported[r * (w + 1)] = "\n"
                     /\ \A c \in 1..w :
                           dbg.exported[(r - 1) * (w + 1) + c] =
                               IF grid[r][c] = "" THEN " " ELSE grid[r][c]

\* C33: a step that returns the IndexError leaves stack, addition_stack and
\* output as they were before it, also when + - * % meet a stack of one value.
C33_FaultKeepsData ==
    (LastStep /\ last.result = Fault) =>
        /\ stack = Pre.stack
        /\ addition_stack = Pre.addition_stack
        /\ output = Pre.output

\* C34: in every state reached by calls of process_char and reset,
\* ignore_mode set implies that the direction is one of the four unit vectors.
C34_BridgingPointerMoves ==
    ignore_mode => direction \in UnitVectors

\* C35: the output before a step is a prefix of the output after it; a step
\* adds at most one fragment, and only N and A steps that return True add one.
C35_OutputIsAppendOnly ==
    LastStep =>
        /\ Len(output) >= Len(Pre.output)
        /\ SubSeq(output, 1, Len(Pre.output)) = Pre.output
        /\ Len(output) <= Len(Pre.output) + 1
        /\ output # Pre.output =>
            (~Pre.ignore_mode /\ last.char \in {"N", "A"} /\ last.result = Continue)

C35_Witness ==
    /\ Executed
    /\ last.char = "A"
    /\ Pre.output = <<<<55>>>>
    /\ Pre.stack = <<7>>
    /\ output = <<<<55>>, <<7>>>>

\* C36: a step never turns a unit direction into (0,0), only reset does;
\* so every step that returns True once the direction is a unit vector moves
\* the pointer by exactly one cell.
C36_DirectionStaysSet ==
    /\ (LastStep /\ Pre.direction \in UnitVectors) => direction \in UnitVectors
    /\ last.op = "reset" => direction = <<0, 0>>
    /\ (LastStep /\ last.result = Continue
            /\ (Pre.direction \in UnitVectors \/ direction \in UnitVectors)) =>
        Abs(x - Pre.x) + Abs(y - Pre.y) = 1

C36_Witness ==
    /\ Executed
    /\ last.char = "/"
    /\ Pre.direction = South
    /\ Pre.stack = <<2>>
    /\ direction = West
    /\ x = Pre.x - 1

====
